---- MODULE Spec2Model ----
(***************************************************************************)
(* Model of backend/app.py: the gesture dataset file (gesture_data.csv),   *)
(* the model artifact (gesture_model.pkl) and the request handlers that    *)
(* read and write them.  Flask's development server (app.run, line 877)    *)
(* serves every request on its own thread, so the handlers interleave at   *)
(* each access to the two files; nothing in app.py takes a lock.  The      *)
(* handlers start from a deployment in which neither file exists, the     *)
(* state lines 206-210, 222-228, 241 and 776 are written for.  A file     *)
(* access is one step where the library makes one system call (an append  *)
(* with mode 'a', a read) and two where it opens with truncation and      *)
(* writes on close (df.to_csv with mode 'w', joblib.dump).                *)
(***************************************************************************)
EXTENDS Integers, Sequences, FiniteSets, TLC

(* ------------------------------ bounds -------------------------------- *)
\* Request threads that may be inside a handler at the same time.
NumProcs == 2
\* Samples recorded in one behaviour (caps the length of the dataset file).
MaxAppends == 4
\* Largest dataset size the planning functions are evaluated on.
MaxTotal == 60

Procs == 1..NumProcs

(* ------------------------- program constants -------------------------- *)
\* len(first_hand) != 21 (line 193)
LandmarkCount == 21

(* ------------------------------ inputs -------------------------------- *)
\* gesture_name values a client sends: characters are "a", "b" and blank.
Labels == { <<>>, <<" ">>, <<"a">>, <<"b">>, <<" ", "a">>, <<"b", " ">> }
\* Number of landmarks the detector reports for the first hand.
HandSizes == { 20, 21 }
\* The labels a stored row can carry.
StoredLabels == { <<"a">>, <<"b">> }

VARIABLES
    csvExists,   \* os.path.exists(CSV_FILE_PATH)
    csvLines,    \* the lines of gesture_data.csv, in file order
    modelFile,   \* gesture_model.pkl: [state, ver]
    writers,     \* threads holding gesture_model.pkl open for writing
    mixed,       \* two joblib.dump calls overlapped on the open artifact
    pc,          \* position of each request thread
    req,         \* the request a thread is serving
    model,       \* the model object a thread holds in memory
    resp,        \* the response the last step returned, if it returned one
    submitted,   \* number of samples that reached save_landmarks_to_csv
    acked,       \* per label, how often save_landmarks_to_csv returned True
    expected,    \* per thread: the artifact as left by every other thread
    everTrained, \* some train_gesture_model call has returned success
    stats,       \* planning input: [k, minc, total]
    plan         \* planning output

vars == << csvExists, csvLines, modelFile, writers, mixed, pc, req, model,
           resp, submitted, acked, expected, everTrained, stats, plan >>

fileVars == << csvExists, csvLines, modelFile, writers, mixed >>
procVars == << pc, req, model, resp, submitted, acked, expected, everTrained >>
planVars == << stats, plan >>

(* --------------------------- pure functions --------------------------- *)
Min(a, b) == IF a < b THEN a ELSE b
Max(a, b) == IF a > b THEN a ELSE b

\* str.strip() (lines 514, 526): drop leading and trailing blanks.
RECURSIVE LStrip(_)
LStrip(s) == IF s # <<>> /\ Head(s) = " " THEN LStrip(Tail(s)) ELSE s
RECURSIVE RStrip(_)
RStrip(s) == IF s # <<>> /\ s[Len(s)] = " " THEN RStrip(SubSeq(s, 1, Len(s) - 1)) ELSE s
Strip(s) == RStrip(LStrip(s))

(* ------------------- planning (train_gesture_model) ------------------- *)
\* A fraction num/den; test_size is kept exact instead of as a float.
Frac(n, d) == [num |-> n, den |-> d]
FracLess(a, b) == a.num * b.den < b.num * a.den
FracLeq(a, b) == a.num * b.den <= b.num * a.den
FracMax(a, b) == IF FracLess(a, b) THEN b ELSE a

\* The checks of lines 249-281, in the order the code makes them.
TrainOutcomeBadOrder(k, minc, total) ==
    IF total = 0 THEN "EmptyDataset"
    ELSE IF minc < 2 THEN "InsufficientClassSamples"
    ELSE IF k < 2 THEN "InsufficientClasses"
    ELSE IF total < k * 2 THEN "InsufficientTotalSamples"
    ELSE "ok"

\* The per-class check of line 267 written as min_samples_per_class < 1: a
\* label with a single sample passes it.
TrainOutcomeWeakClassCheck(k, minc, total) ==
    IF total = 0 THEN "EmptyDataset"
    ELSE IF k < 2 THEN "InsufficientClasses"
    ELSE IF minc < 1 THEN "InsufficientClassSamples"
    ELSE IF total < k * 2 THEN "InsufficientTotalSamples"
    ELSE "ok"

TrainOutcome(k, minc, total) ==
    IF total = 0 THEN "EmptyDataset"                       \* line 249
    ELSE IF k < 2 THEN "InsufficientClasses"               \* line 257
    ELSE IF minc < 2 THEN "InsufficientClassSamples"       \* line 267
    ELSE IF total < k * 2 THEN "InsufficientTotalSamples"  \* line 277
    ELSE "ok"

\* A schedule whose small-dataset branch takes the smaller of the two values.
TestSizeMinBug(k, total) ==
    IF total >= 50 THEN Frac(2, 10)
    ELSE IF total >= 30 THEN Frac(25, 100)
    ELSE IF FracLess(Frac(3, 10), Frac(k, total)) THEN Frac(3, 10) ELSE Frac(k, total)

\* test_size, lines 288-294 (min_test_samples = k, line 275).
TestSize(k, total) ==
    IF total >= 50 THEN Frac(2, 10)
    ELSE IF total >= 30 THEN Frac(25, 100)
    ELSE FracMax(Frac(3, 10), Frac(k, total))

\* Hyperparameters with the inner and outer bound of each clamp exchanged.
HyperParamsSwapped(total) ==
    [ n_estimators      |-> Max(100, Min(10, total * 2)),
      max_depth         |-> Max(10, Min(3, total \div 5)),
      min_samples_split |-> Min(2, Max(5, total \div 10)),
      min_samples_leaf  |-> 1 ]

\* RandomForestClassifier(...) arguments, lines 309-317.
HyperParams(total) ==
    [ n_estimators      |-> Min(100, Max(10, total * 2)),
      max_depth         |-> Min(10, Max(3, total \div 5)),
      min_samples_split |-> Max(2, Min(5, total \div 10)),
      min_samples_leaf  |-> 1 ]

(* ----------------------------- file lines ----------------------------- *)
\* The header line written by initialize_csv_file: gesture_name + 63 columns.
\* lines 330-346, the success result.  The two accuracies are measurements, the
\* partition sizes follow from testSize and totalSamples, and 'gestures'
\* repeats the dataset; the fields kept here are the ones computed from the plan.
ReportedParams(params) ==
    [n_estimators |-> params.n_estimators, max_depth |-> params.max_depth,
     min_samples_split |-> params.min_samples_split]
\* round(test_size, 3), line 340: to the nearest thousandth, a tie to the even one.
Round3(f) ==
    LET twice == 2000 * f.num
        down == twice \div (2 * f.den)
        rest == twice % (2 * f.den)
    IN Frac(IF rest > f.den \/ (rest = f.den /\ down % 2 = 1) THEN down + 1 ELSE down, 1000)
TrainResult(k, total, test_size, params) ==
    [success |-> TRUE, message |-> "Model trained successfully", totalSamples |-> total,
     gestureCount |-> k, testSize |-> Round3(test_size),
     modelParams |-> ReportedParams(params)]

HeaderLine == [kind |-> "header", label |-> <<"gesture_name">>, n |-> 3 * LandmarkCount]
\* What is left of a row whose first bytes another writer has overwritten.
TornLine(r) == [kind |-> "torn", label |-> <<"?">>, n |-> 0]
NoRow == [kind |-> "none", label |-> <<>>, n |-> 0]

\* pd.read_csv (line 248): the first line names the columns, the rest are rows.
DataLines(lines) == IF lines = <<>> THEN <<>> ELSE Tail(lines)
\* The stored samples: the complete rows among the data lines, in file order.
RECURSIVE SelectRows(_)
SelectRows(lines) ==
    IF lines = <<>> THEN <<>>
    ELSE IF Head(lines).kind = "row" THEN <<Head(lines)>> \o SelectRows(Tail(lines))
    ELSE SelectRows(Tail(lines))
Samples(lines) == SelectRows(lines)

\* df['gesture_name'].value_counts() (line 256)
LabelSet(rows) == { rows[i].label : i \in 1..Len(rows) }
CountOf(rows, l) == Cardinality({ i \in 1..Len(rows) : rows[i].label = l })
RECURSIVE MinOver(_)
MinOver(S) ==
    IF S = {} THEN 0
    ELSE LET x == CHOOSE y \in S : TRUE
             m == MinOver(S \ {x})
         IN IF S = {x} THEN x ELSE Min(x, m)
StatsOf(rows) ==
    [ k     |-> Cardinality(LabelSet(rows)),
      minc  |-> MinOver({ CountOf(rows, l) : l \in LabelSet(rows) }),
      total |-> Len(rows) ]

(* ------------------------- thread-local values ------------------------ *)
NoReq == [op |-> "none", row |-> NoRow]
NoModel == [state |-> "none", ver |-> 0]
\* A response: the thread that returned it, its kind, for a training or
\* prediction result the dataset size of the model it reports, and for
\* /detect the state load_model found the artifact in.
Reply(p, kind, ver, saw) == [by |-> p, kind |-> kind, ver |-> ver, saw |-> saw]
Resp(p, kind) == Reply(p, kind, 0, "none")
NoResp == Reply(0, "none", 0, "none")

NoParams == [n_estimators |-> 0, max_depth |-> 0, min_samples_split |-> 0, min_samples_leaf |-> 0]
NoResult ==
    [success |-> FALSE, message |-> "none", totalSamples |-> 0, gestureCount |-> 0,
     testSize |-> Frac(0, 1000),
     modelParams |-> [n_estimators |-> 0, max_depth |-> 0, min_samples_split |-> 0]]
NoPlan ==
    [outcome |-> "none", test_size |-> Frac(0, 1), params |-> NoParams,
     split |-> "none", result |-> NoResult]
NoStats == [k |-> 0, minc |-> 0, total |-> 0]

\* The (k, min count, total) triples some dataset of at most MaxTotal rows has.
StatSpace ==
    { s \in [k : 0..MaxTotal, minc : 0..MaxTotal, total : 0..MaxTotal] :
        IF s.total = 0 THEN s.k = 0 /\ s.minc = 0
        ELSE /\ s.k >= 1 /\ s.minc >= 1
             /\ s.k * s.minc <= s.total
             /\ (s.k = 1 => s.minc = s.total) }

\* A fresh deployment: neither file exists and no request is in progress.
InitServer ==
    /\ csvExists = FALSE
    /\ csvLines = <<>>
    /\ modelFile = [state |-> "absent", ver |-> 0]
    /\ writers = {}
    /\ mixed = FALSE
    /\ pc = [p \in Procs |-> "idle"]
    /\ req = [p \in Procs |-> NoReq]
    /\ model = [p \in Procs |-> NoModel]
    /\ resp = NoResp
    /\ submitted = 0
    /\ acked = [l \in StoredLabels |-> 0]
    /\ expected = [p \in Procs |-> modelFile]
    /\ everTrained = FALSE

Init ==
    /\ InitServer
    /\ stats = NoStats
    /\ plan = NoPlan

\* A request is served on a thread of its own (app.run, line 877); it takes
\* the lowest free slot.
FreeSlot(p) == pc[p] = "idle" /\ \A q \in Procs : q < p => pc[q] # "idle"

(* ------------------ initialize_csv_file, lines 163-173 ---------------- *)
\* Where a thread continues after initialize_csv_file returns: line 210 in
\* save_landmarks_to_csv, line 611 in train_model.
AfterInit(p) == IF req[p].op = "record" THEN "append" ELSE "train_read"

\* line 165: if not os.path.exists(CSV_FILE_PATH)
InitCsvCheck(p) ==
    /\ pc[p] = "init_check"
    /\ pc' = [pc EXCEPT ![p] = IF csvExists THEN AfterInit(p) ELSE "init_open"]
    /\ resp' = NoResp
    /\ UNCHANGED << fileVars, req, model, submitted, acked, expected, everTrained, planVars >>

\* line 172, df.to_csv(CSV_FILE_PATH): the file is opened for writing, which
\* creates it or cuts it to length 0.
InitCsvOpen(p) ==
    /\ pc[p] = "init_open"
    /\ csvExists' = TRUE
    /\ csvLines' = <<>>
    /\ pc' = [pc EXCEPT ![p] = "init_write"]
    /\ resp' = NoResp
    /\ UNCHANGED << modelFile, writers, mixed, req, model, submitted, acked,
                    expected, everTrained, planVars >>

\* The header is written at offset 0 of whatever the file holds by now.
WriteAtStart(lines) ==
    IF lines = <<>> THEN << HeaderLine >>
    ELSE IF Head(lines).kind = "row" THEN << HeaderLine, TornLine(Head(lines)) >> \o Tail(lines)
    ELSE << HeaderLine >> \o Tail(lines)

\* line 172, df.to_csv(CSV_FILE_PATH): the header line is written and the file closed.
InitCsvWrite(p) ==
    /\ pc[p] = "init_write"
    /\ csvLines' = WriteAtStart(csvLines)
    /\ pc' = [pc EXCEPT ![p] = AfterInit(p)]
    /\ resp' = NoResp
    /\ UNCHANGED << csvExists, modelFile, writers, mixed, req, model, submitted,
                    acked, expected, everTrained, planVars >>

(* ------- record_gesture / save_landmarks_to_csv, lines 175-217, 482-597 ------- *)
\* row_data, lines 198-202: the label and three values per landmark.
MakeRow(label, hand) == [kind |-> "row", label |-> label, n |-> 3 * hand]

\* The handler up to the test of line 206, with the detector initialised
\* (line 490).  hand = 0: no hand detected.
RecordGesture(p, name, hand) ==
    /\ FreeSlot(p)
    /\ submitted < MaxAppends
    /\ IF Strip(name) = <<>>                                     \* line 514
       THEN /\ resp' = Resp(p, "InvalidGestureName")
            /\ UNCHANGED << pc, req, submitted >>
       ELSE IF hand = 0                                          \* line 553
       THEN /\ resp' = Resp(p, "NoHands")
            /\ UNCHANGED << pc, req, submitted >>
       ELSE IF hand # LandmarkCount                              \* line 193
       THEN /\ resp' = Resp(p, "SaveFailed")
            /\ UNCHANGED << pc, req, submitted >>
       ELSE /\ submitted' = submitted + 1
            /\ req' = [req EXCEPT ![p] =
                         [op |-> "record", row |-> MakeRow(Strip(name), hand)]]
            /\ pc' = [pc EXCEPT ![p] = IF csvExists THEN "append" ELSE "init_check"]  \* line 206
            /\ resp' = NoResp
    /\ UNCHANGED << fileVars, model, acked, expected, everTrained, planVars >>

\* lines 207 / 210, df.to_csv(mode='a', header=False), then return True.  The
\* handler's read of the file for its response (line 569) changes nothing.
AppendRow(p) ==
    /\ pc[p] = "append"
    /\ csvExists' = TRUE
    /\ csvLines' = Append(csvLines, req[p].row)
    /\ acked' = [acked EXCEPT ![req[p].row.label] = @ + 1]
    /\ resp' = Resp(p, "Recorded")
    /\ req' = [req EXCEPT ![p] = NoReq]
    /\ pc' = [pc EXCEPT ![p] = "idle"]
    /\ UNCHANGED << modelFile, writers, mixed, model, submitted, expected, everTrained, planVars >>

(* ------------- train_model / train_gesture_model, lines 233-353, 599-633 ------------- *)
TrainFailures ==
    { "NoTrainingData", "EmptyDataset", "InsufficientClasses", "InsufficientClassSamples",
      "InsufficientTotalSamples", "TrainingFailed" }

\* What the other threads see of a write to the artifact by thread p.
Others(p, file) == [q \in Procs |-> IF q = p THEN expected[q] ELSE file]

\* train_model, line 608: initialize_csv_file() is the handler's first call,
\* and its first statement the test of line 165.
TrainModel(p) ==
    /\ FreeSlot(p)
    /\ req' = [req EXCEPT ![p] = [op |-> "train", row |-> NoRow]]
    /\ pc' = [pc EXCEPT ![p] = IF csvExists THEN "train_read" ELSE "init_open"]
    /\ expected' = [expected EXCEPT ![p] = modelFile]
    /\ resp' = NoResp
    /\ UNCHANGED << fileVars, model, submitted, acked, everTrained, planVars >>

\* train_gesture_model with joblib.dump moved ahead of the evaluation: a call
\* that raises afterwards has already replaced the artifact.
TrainReadSavesEarly(p, raised) ==
    /\ pc[p] = "train_read"
    /\ LET rows == DataLines(csvLines)
           st == StatsOf(rows)
           outcome == IF ~csvExists THEN "NoTrainingData"
                      ELSE IF csvLines = <<>> THEN "TrainingFailed"
                      ELSE IF rows # <<>> /\ Head(csvLines).kind # "header" THEN "TrainingFailed"
                      ELSE TrainOutcome(st.k, st.minc, st.total)
       IN IF outcome = "ok" /\ ~raised
          THEN /\ model' = [model EXCEPT ![p] = [state |-> "fitted", ver |-> st.total]]
               /\ pc' = [pc EXCEPT ![p] = "dump_open"]
               /\ resp' = NoResp
               /\ UNCHANGED << req, modelFile, expected >>
          ELSE /\ resp' = Resp(p, IF outcome = "ok" THEN "TrainingFailed" ELSE outcome)
               /\ pc' = [pc EXCEPT ![p] = "idle"]
               /\ req' = [req EXCEPT ![p] = NoReq]
               /\ modelFile' = IF outcome = "ok"
                               THEN [state |-> "complete", ver |-> st.total]
                               ELSE modelFile
               /\ expected' = Others(p, modelFile')
               /\ UNCHANGED model
    /\ UNCHANGED << csvExists, csvLines, writers, mixed, submitted, acked, everTrained, planVars >>

\* lines 241-325: the existence test, pd.read_csv, the sufficiency checks, then
\* split, fit and evaluate in memory.  An empty file makes pd.read_csv raise,
\* and so does df['gesture_name'] (line 256) when the first line of the file
\* is not the header; raised: one of the library calls of lines 283-325
\* raises.  Line 348 turns each into a failure result.
TrainRead(p, raised) ==
    /\ pc[p] = "train_read"
    /\ LET rows == DataLines(csvLines)
           st == StatsOf(rows)
           outcome == IF ~csvExists THEN "NoTrainingData"
                      ELSE IF csvLines = <<>> THEN "TrainingFailed"
                      ELSE IF rows # <<>> /\ Head(csvLines).kind # "header" THEN "TrainingFailed"
                      ELSE TrainOutcome(st.k, st.minc, st.total)
       IN IF outcome = "ok" /\ ~raised
          THEN /\ model' = [model EXCEPT ![p] = [state |-> "fitted", ver |-> st.total]]
               /\ pc' = [pc EXCEPT ![p] = "dump_open"]
               /\ resp' = NoResp
               /\ UNCHANGED req
          ELSE /\ resp' = Resp(p, IF outcome = "ok" THEN "TrainingFailed" ELSE outcome)
               /\ pc' = [pc EXCEPT ![p] = "idle"]
               /\ req' = [req EXCEPT ![p] = NoReq]
               /\ UNCHANGED model
    /\ UNCHANGED << fileVars, submitted, acked, expected, everTrained, planVars >>

\* line 328, joblib.dump(model, MODEL_FILE_PATH): the artifact itself is opened
\* for writing, which cuts it to length 0.
DumpOpen(p) ==
    /\ pc[p] = "dump_open"
    /\ modelFile' = [state |-> "partial", ver |-> model[p].ver]
    /\ mixed' = (writers # {})
    /\ writers' = writers \cup {p}
    /\ expected' = Others(p, modelFile')
    /\ pc' = [pc EXCEPT ![p] = "dump_close"]
    /\ resp' = NoResp
    /\ UNCHANGED << csvExists, csvLines, req, model, submitted, acked, everTrained, planVars >>

\* line 328 completes and line 330 returns success.  When two dumps overlapped
\* on the open file its bytes are those of one model or a mixture of both.
DumpClose(p) ==
    /\ pc[p] = "dump_close"
    /\ writers' = writers \ {p}
    /\ IF writers' # {}
       THEN UNCHANGED << modelFile, mixed >>
       ELSE /\ mixed' = FALSE
            /\ \E st \in (IF mixed THEN {"complete", "corrupt"} ELSE {"complete"}) :
                  modelFile' = [state |-> st, ver |-> model[p].ver]
    /\ expected' = Others(p, modelFile')
    /\ resp' = Reply(p, "Trained", model[p].ver, "none")
    /\ model' = [model EXCEPT ![p] = NoModel]
    /\ req' = [req EXCEPT ![p] = NoReq]
    /\ pc' = [pc EXCEPT ![p] = "idle"]
    /\ everTrained' = TRUE
    /\ UNCHANGED << csvExists, csvLines, submitted, acked, planVars >>

(* ------------- detect_trained_gesture / load_model, lines 219-231, 635-770 ------------- *)
\* load_model without the existence test of line 222: a missing artifact is
\* handed to the prediction as if it had been loaded.
DetectLoadNoExistsTest(p) ==
    /\ FreeSlot(p)
    /\ IF modelFile.state \in {"complete", "absent"}
       THEN /\ model' = [model EXCEPT ![p] = modelFile]
            /\ pc' = [pc EXCEPT ![p] = "predict"]
            /\ resp' = NoResp
       ELSE /\ resp' = Reply(p, "NoTrainedModel", 0, modelFile.state)
            /\ UNCHANGED << pc, model >>
    /\ UNCHANGED << fileVars, req, submitted, acked, expected, everTrained, planVars >>

\* lines 650-655: load_model() reads the artifact; a missing file (line 226) and
\* a file joblib.load cannot read (line 229) both give None, answered with 404.
DetectLoad(p) ==
    /\ FreeSlot(p)
    /\ IF modelFile.state = "complete"
       THEN /\ model' = [model EXCEPT ![p] = modelFile]
            /\ pc' = [pc EXCEPT ![p] = "predict"]
            /\ resp' = NoResp
       ELSE /\ resp' = Reply(p, "NoTrainedModel", 0, modelFile.state)
            /\ UNCHANGED << pc, model >>
    /\ UNCHANGED << fileVars, req, submitted, acked, expected, everTrained, planVars >>

\* The prediction reading gesture_model.pkl again at lines 744-750 instead of
\* using the object line 650 loaded.
DetectPredictReloads(p) ==
    /\ pc[p] = "predict"
    /\ resp' = Reply(p, "Prediction", modelFile.ver, modelFile.state)
    /\ model' = [model EXCEPT ![p] = NoModel]
    /\ pc' = [pc EXCEPT ![p] = "idle"]
    /\ UNCHANGED << fileVars, req, submitted, acked, expected, everTrained, planVars >>

\* lines 744-762: label, confidence and probabilities from the loaded object.
DetectPredict(p) ==
    /\ pc[p] = "predict"
    /\ resp' = Reply(p, "Prediction", model[p].ver, "complete")
    /\ model' = [model EXCEPT ![p] = NoModel]
    /\ pc' = [pc EXCEPT ![p] = "idle"]
    /\ UNCHANGED << fileVars, req, submitted, acked, expected, everTrained, planVars >>

(* ------------------------ dataset_info, lines 772-806 ------------------------ *)
\* Reads the dataset and changes nothing; pd.read_csv on an empty file and
\* df['gesture_name'] on a file without its header raise (line 799).
DatasetInfo(p) ==
    /\ FreeSlot(p)
    /\ resp' = IF ~csvExists THEN Resp(p, "NoDataset")
               ELSE IF csvLines = <<>> \/ Head(csvLines).kind # "header" THEN Resp(p, "InfoFailed")
               ELSE Reply(p, "DatasetInfo", Len(DataLines(csvLines)), "none")
    /\ UNCHANGED << fileVars, pc, req, model, submitted, acked, expected, everTrained, planVars >>

Next ==
    \E p \in Procs :
        \/ InitCsvCheck(p)
        \/ InitCsvOpen(p)
        \/ InitCsvWrite(p)
        \/ \E name \in Labels, hand \in HandSizes \cup {0} : RecordGesture(p, name, hand)
        \/ AppendRow(p)
        \/ TrainModel(p)
        \/ \E raised \in BOOLEAN : TrainRead(p, raised)
        \/ DumpOpen(p)
        \/ DumpClose(p)
        \/ DetectLoad(p)
        \/ DetectPredict(p)
        \/ DatasetInfo(p)

Spec == Init /\ [][Next]_vars

(* ---------- the planning functions of train_gesture_model on their own ---------- *)
InitPlan ==
    /\ InitServer
    /\ stats \in StatSpace
    /\ plan = NoPlan

\* lines 249-281 on a dataset with the statistics drawn.
Validate ==
    /\ plan.outcome = "none"
    /\ plan' = [plan EXCEPT !.outcome = TrainOutcome(stats.k, stats.minc, stats.total)]
    /\ UNCHANGED << fileVars, procVars, stats >>

\* lines 288-294, reached when no check has returned.
ChooseTestSize ==
    /\ plan.outcome = "ok"
    /\ plan.test_size = Frac(0, 1)
    /\ plan' = [plan EXCEPT !.test_size = TestSize(stats.k, stats.total)]
    /\ UNCHANGED << fileVars, procVars, stats >>

\* lines 309-317, the constructor arguments as a function of total_samples.
ScaleModel ==
    /\ plan.params = NoParams
    /\ plan' = [plan EXCEPT !.params = HyperParams(stats.total)]
    /\ UNCHANGED << fileVars, procVars, stats >>

\* lines 296-306: the stratified train_test_split, and the plain one at the same
\* test_size when the first raises ValueError (valueError), which line 303 logs.
SplitData(valueError) ==
    /\ plan.test_size # Frac(0, 1)
    /\ plan.split = "none"
    /\ plan' = [plan EXCEPT !.split = IF valueError THEN "plain" ELSE "stratified"]
    /\ UNCHANGED << fileVars, procVars, stats >>

\* lines 330-346: the result returned once the model is fitted and saved.
ReturnResult ==
    /\ plan.split # "none"
    /\ plan.params # NoParams
    /\ plan.result = NoResult
    /\ plan' = [plan EXCEPT !.result =
                   TrainResult(stats.k, stats.total, plan.test_size, plan.params)]
    /\ UNCHANGED << fileVars, procVars, stats >>

NextPlan ==
    \/ Validate
    \/ ChooseTestSize
    \/ ScaleModel
    \/ \E valueError \in BOOLEAN : SplitData(valueError)
    \/ ReturnResult

SpecPlan == InitPlan /\ [][NextPlan]_vars

(* ============================== claims ================================ *)
Clamp(x, lo, hi) == IF x < lo THEN lo ELSE IF x > hi THEN hi ELSE x
CeilDiv(a, b) == (a + b - 1) \div b
FracEq(a, b) == a.num * b.den = b.num * a.den
IsPrefix(s, t) == Len(s) <= Len(t) /\ SubSeq(t, 1, Len(s)) = s
\* Threads inside a training run: the dataset is read, the artifact not yet written.
Training == { p \in Procs : pc[p] \in {"dump_open", "dump_close"} }
TestSizeChosen == plan.test_size # Frac(0, 1)
ValidStats == stats.k >= 2 /\ stats.minc >= 2 /\ stats.total >= 2 * stats.k

\* C1: training is single-flight: at most one train() run is between reading
\* the dataset and having written the model artifact.
C1_SingleFlight == Cardinality(Training) <= 1

C6_FailureLeavesArtifact == resp.kind \in TrainFailures => modelFile = expected[resp.by]
C6_Witness == resp.kind \in TrainFailures /\ modelFile.state = "complete"

\* C7 as stated: k < 2 (a dataset with no samples included) fails with
\* InsufficientClasses, then min count < 2 with InsufficientClassSamples, then
\* total < 2k with InsufficientTotalSamples.
C7_Original ==
    plan.outcome # "none" =>
        IF stats.k < 2 THEN plan.outcome = "InsufficientClasses"
        ELSE IF stats.minc < 2 THEN plan.outcome = "InsufficientClassSamples"
        ELSE IF stats.total < 2 * stats.k THEN plan.outcome = "InsufficientTotalSamples"
        ELSE plan.outcome = "ok"

\* C7 amended: a dataset with no samples fails as an empty dataset; a dataset
\* with samples is classified in the order of the claim.
C7_ValidationOrder ==
    plan.outcome # "none" =>
        IF stats.total = 0 THEN plan.outcome = "EmptyDataset"
        ELSE IF stats.k < 2 THEN plan.outcome = "InsufficientClasses"
        ELSE IF stats.minc < 2 THEN plan.outcome = "InsufficientClassSamples"
        ELSE IF stats.total < 2 * stats.k THEN plan.outcome = "InsufficientTotalSamples"
        ELSE plan.outcome = "ok"
C7_Witness == stats = [k |-> 1, minc |-> 1, total |-> 1] /\ plan.outcome = "InsufficientClasses"

\* C8: with k >= 2, min count >= 2 and total >= 2k planning succeeds and the
\* test fraction is 0.20 (total >= 50), 0.25 (30 <= total < 50) or
\* max(0.30, k/total) (total < 30), which lies in [0.2, 1.0).
C8_TestFraction ==
    /\ (plan.outcome # "none" /\ ValidStats) => plan.outcome = "ok"
    /\ (TestSizeChosen /\ ValidStats) =>
          /\ FracEq(plan.test_size,
                    IF stats.total >= 50 THEN Frac(20, 100)
                    ELSE IF stats.total >= 30 THEN Frac(25, 100)
                    ELSE IF 30 * stats.total >= 100 * stats.k THEN Frac(30, 100)
                    ELSE Frac(stats.k, stats.total))
          /\ FracLeq(Frac(2, 10), plan.test_size)
          /\ FracLess(plan.test_size, Frac(1, 1))
C8_Witness == TestSizeChosen /\ ValidStats /\ stats.total < 30 /\ 10 * stats.k > 3 * stats.total

\* C9: for every dataset that passes validation the test partition,
\* ceil(testFraction * total), and the training partition, the rest, each hold
\* at least k samples.
C9_HeldOutPerClass ==
    (TestSizeChosen /\ ValidStats) =>
        LET n_test == CeilDiv(plan.test_size.num * stats.total, plan.test_size.den)
        IN n_test >= stats.k /\ stats.total - n_test >= stats.k

\* C10: treeCount = clamp(2*total, 10, 100), maxDepth = clamp(total div 5, 3, 10),
\* minSplit = clamp(total div 10, 2, 5), minLeaf = 1, each within its range.
C10_HyperParams ==
    plan.params # NoParams =>
        /\ plan.params.n_estimators = Clamp(2 * stats.total, 10, 100)
        /\ plan.params.max_depth = Clamp(stats.total \div 5, 3, 10)
        /\ plan.params.min_samples_split = Clamp(stats.total \div 10, 2, 5)
        /\ plan.params.min_samples_leaf = 1
        /\ plan.params.n_estimators \in 10..100
        /\ plan.params.max_depth \in 3..10
        /\ plan.params.min_samples_split \in 2..5
C10_Witness == plan.params # NoParams /\ stats.total >= 50 /\ plan.params.n_estimators = 100

\* C11: dataset initialization is idempotent: a step of initialize_csv_file
\* keeps every stored sample present and unchanged, and when the call returns
\* the file has exactly one header line, the first.
HeaderCount(lines) == Cardinality({ i \in 1..Len(lines) : lines[i].kind = "header" })
C12_NoModelNoPrediction ==
    [][modelFile.state = "absent" =>
          /\ \A p \in Procs : pc'[p] # "predict"
          /\ resp'.kind # "Prediction"
          /\ resp'.kind = "NoTrainedModel" =>
                /\ resp'.ver = 0
                /\ resp'.saw = "absent"
                /\ fileVars' = fileVars]_vars
C12_Witness ==
    /\ resp.kind = "NoTrainedModel"
    /\ modelFile.state = "absent"
    /\ Samples(csvLines) # <<>>

\* C13: a successful result of a run that fell back to the plain split carries
\* an indication of the fallback: it differs from the result the same dataset
\* gives when the stratified split succeeds.
StratifiedResult == TrainResult(stats.k, stats.total, plan.test_size, plan.params)
C13_FallbackSurfaced ==
    (plan.split = "plain" /\ plan.result.success) => plan.result # StratifiedResult

\* C14: every sample in the dataset is well-formed: its label is non-empty and
\* equal to its trimmed form, and it has 63 feature values, three for each of
\* the 21 landmarks.
WellFormed(line) ==
    /\ line.label # <<>>
    /\ Strip(line.label) = line.label
    /\ line.n = 3 * LandmarkCount
C15_ModelStaysAvailable == everTrained => resp.kind # "NoTrainedModel"

\* C16: a predict() call answers from the one model object it loaded at its
\* start: no step of another request changes that object, the response (label,
\* confidence and distribution) is computed from it whatever the artifact on
\* disk has become, and the prediction step is never blocked by a training run.
C16_PredictsFromSnapshot ==
    /\ [](\A p \in Procs : pc[p] = "predict" =>
             (model[p].state = "complete" /\ ENABLED DetectPredict(p)))
    /\ [][\A p \in Procs : pc[p] = "predict" =>
             /\ pc'[p] = "predict" => model'[p] = model[p]
             /\ pc'[p] # "predict" =>
                   resp' = Reply(p, "Prediction", model[p].ver, model[p].state)]_vars
C16_Witness ==
    /\ resp.kind = "Prediction"
    /\ modelFile.state = "partial"
    /\ Training # {}

\* C17: the InsufficientTotalSamples outcome is unreachable: a dataset with at
\* least 2 labels and at least 2 samples of every label has total >= 2k, so
\* validation ends in EmptyDataset, InsufficientClasses,
\* InsufficientClassSamples or success.
C17_TotalCheckUnreachable ==
    /\ plan.outcome \in {"none", "ok", "EmptyDataset", "InsufficientClasses",
                         "InsufficientClassSamples"}
    /\ (plan.outcome # "none" /\ stats.k >= 2 /\ stats.minc >= 2) =>
          (stats.total >= 2 * stats.k /\ plan.outcome = "ok")
C17_Witness ==
    /\ plan.outcome = "ok"
    /\ stats.k >= 3
    /\ stats.minc = 2
    /\ stats.total = 2 * stats.k
====
